---- MODULE Spec2Model ----
(***************************************************************************)
(* Model of libs/dbdict.py: a dictionary interface (Table, Pivot) over one *)
(* table of a DB API connection.  The database behind the connection is    *)
(* modelled as a committed table plus one open transaction per connection; *)
(* every handler is one atomic step, since calls are synchronous.          *)
(***************************************************************************)
EXTENDS Integers, Sequences, FiniteSets, TLC

\* ------------------------------------------------------------- bounds
MaxKey == 2
MaxVal == 1
MaxLen == 2

\* ------------------------------------------------------- the database
\* SQL NULL, which the driver hands over as Python None.
NULL == 0
Keys == 1..MaxKey
Vals == 1..MaxVal
DbVals == {NULL} \cup Vals

\* The table of the module's examples: sales(transation_id, quantity, discount).
pk == "transation_id"
ColOrder == <<"quantity", "discount">>
Cols == {ColOrder[i] : i \in 1..Len(ColOrder)}
Row == [Cols -> DbVals]

\* The threads that use one Table object.
Threads == {"main", "worker"}

\* ----------------------------------------------------- Python values
Py(t, v, s, items) == [t |-> t, v |-> v, s |-> s, items |-> items]
PyNone == Py("NoneType", 0, "", <<>>)
PyInt(n) == Py("int", n, "", <<>>)
PyStr(x) == Py("str", 0, x, <<>>)
PyTuple(xs) == Py("tuple", 0, "", xs)
PyDict(pairs) == Py("dict", 0, "", pairs)

\* A fetched cell, and a statement parameter.
ToPy(x) == IF x = NULL THEN PyNone ELSE PyInt(x)

\* How a call ends: a return value, or an exception.
Return(val) == [exc |-> "", val |-> val]
Raise(exc, msg) == [exc |-> exc, val |-> PyStr(msg)]

\* What a handler did: the transaction's table after it, how the call ended,
\* the statement executions that succeeded, and the commits.
Res(db, out, execs, commits) ==
    [db |-> db, out |-> out, execs |-> execs, commits |-> commits]

\* self.local.cur / self.local.con read in a thread that never called connect:
\* threading.local has no such attribute there.
UnboundCur == Raise("AttributeError", "'_thread._local' object has no attribute 'cur'")
UnboundCon == Raise("AttributeError", "'_thread._local' object has no attribute 'con'")

\* ------------------------------------------------ statements (driver)
\* SELECT <names> FROM t WHERE pk=key, then fetchone(): the row as a tuple, or None.
FetchOne(db, names, key) ==
    IF key \in DOMAIN db
    THEN PyTuple([i \in 1..Len(names) |->
             IF names[i] = pk THEN PyInt(key) ELSE ToPy(db[key][names[i]])])
    ELSE PyNone

\* SELECT * FROM t WHERE pk=key, then fetchone(): (row, cursor.description names).
FetchAll(db, key) == FetchOne(db, <<pk>> \o ColOrder, key)

Assigned(assigns, c) == \E p \in assigns : p[1] = c
ValueOf(assigns, c) == (CHOOSE p \in assigns : p[1] = c)[2]

\* Mutant: the SET list is cut to one column.
UpdateOneColumn(db, key, assigns) ==
    IF key \in DOMAIN db /\ assigns # {}
    THEN LET first == CHOOSE p \in assigns : \A q \in assigns : p[1] = q[1] \/ p[1] # "quantity"
         IN  [db EXCEPT ![key] = [@ EXCEPT ![first[1]] = first[2]]]
    ELSE db

\* UPDATE t SET c=v,... WHERE pk=key: changes the row when there is one.
Update(db, key, assigns) ==
    IF key \in DOMAIN db
    THEN [db EXCEPT ![key] =
             [c \in Cols |-> IF Assigned(assigns, c) THEN ValueOf(assigns, c) ELSE @[c]]]
    ELSE db

\* INSERT INTO t (c,...,pk) VALUES (...): the columns left out are NULL.
Insert(db, key, assigns) ==
    [k \in DOMAIN db \cup {key} |->
        IF k = key
        THEN [c \in Cols |-> IF Assigned(assigns, c) THEN ValueOf(assigns, c) ELSE NULL]
        ELSE db[k]]

\* DELETE FROM t WHERE pk=key
Delete(db, key) == [k \in DOMAIN db \ {key} |-> db[k]]

\* SELECT COUNT(*) FROM t
Count(db) == Cardinality(DOMAIN db)

\* ------------------------------------------------------------- Table
\* Table.__getitem__: the keys of the Pivot (a single key is wrapped).
TableGetItem(keys) == IF keys.t # "tuple" THEN <<keys>> ELSE keys.items

\* ------------------------------------------------------------- Pivot
NormCols(cols) == IF cols.t # "tuple" THEN <<cols>> ELSE cols.items
ColNames(cols) == [i \in 1..Len(NormCols(cols)) |-> NormCols(cols)[i].s]

\* Index of the first key without a row, or Len(keys)+1.
FirstMissing(db, keys) ==
    IF \E i \in 1..Len(keys) : keys[i].v \notin DOMAIN db
    THEN CHOOSE i \in 1..Len(keys) :
            /\ keys[i].v \notin DOMAIN db
            /\ \A j \in 1..(i-1) : keys[j].v \in DOMAIN db
    ELSE Len(keys) + 1

\* Pivot.__getitem__(cols, keep_tuples)
PivotGetItem(bound, db, keys, cols, keep_tuples) ==
    LET names == ColNames(cols)
        unwrap == ~keep_tuples /\ Len(names) = 1
        row(i) == FetchOne(db, names, keys[i].v)
        values == [i \in 1..Len(keys) |-> IF unwrap THEN row(i).items[1] ELSE row(i)]
        miss == FirstMissing(db, keys)
    IN  IF keys = <<>> THEN Res(db, Return(PyNone), 0, 0)
        ELSE IF ~bound THEN Res(db, UnboundCur, 0, 0)
        ELSE IF unwrap /\ miss <= Len(keys)
        THEN \* raise self.table.module.OperationalError(...): Table stores no module
             Res(db, Raise("AttributeError", "'Table' object has no attribute 'module'"), miss, 0)
        ELSE IF Len(values) = 1 THEN Res(db, Return(values[1]), 1, 0)
        ELSE Res(db, Return(PyTuple(values)), Len(keys), 0)

\* Mutant: the length counts the missing rows (1 for a missing row, 0 for a row).
PivotLenInverted(bound, db, keys) ==
    LET r == PivotGetItem(bound, db, keys, PyStr(pk), TRUE)
    IN  IF r.out.exc # "" THEN r
        ELSE IF r.out.val = PyNone /\ keys # <<>> THEN Res(db, Return(PyInt(1)), r.execs, 0)
        ELSE Res(db, Return(PyInt(0)), r.execs, 0)

\* Pivot.__len__
PivotLen(bound, db, keys) ==
    LET r == PivotGetItem(bound, db, keys, PyStr(pk), TRUE)
        rows_ == r.out.val
    IN  IF r.out.exc # "" THEN r
        ELSE IF rows_.t = "list"
        THEN Res(db, Raise("TypeError", "object of type 'generator' has no len()"), r.execs, 0)
        ELSE IF rows_ = PyNone THEN Res(db, Return(PyInt(0)), r.execs, 0)
        ELSE Res(db, Return(PyInt(1)), r.execs, 0)

\* Mutant: the test forgets insert_only.
TakesUpdateAnyMode(length, insertOnly) == length # 0

\* Table.__setitem__'s test, "self[key] and not self.insert_only": bool() of a
\* Pivot is whether its __len__ is not 0.
TakesUpdate(length, insertOnly) == length # 0 /\ ~insertOnly

\* Table.__setitem__(key, values): values is a dict, here its set of items.
TableSetItem(bound, db, insertOnly, key, values) ==
    LET probe == PivotLen(bound, db, TableGetItem(key))
    IN  IF probe.out.exc # "" THEN probe
        ELSE IF TakesUpdate(probe.out.val.v, insertOnly)
        THEN IF values = {}
             THEN \* UPDATE t SET  WHERE pk=%s
                  Res(db, Raise("ProgrammingError", "SQL syntax"), probe.execs, 0)
             ELSE Res(Update(db, key.v, values), Return(PyNone), probe.execs + 1, 1)
        ELSE IF key.v \in DOMAIN db
             THEN Res(db, Raise("IntegrityError", "Duplicate entry"), probe.execs, 0)
             ELSE Res(Insert(db, key.v, values), Return(PyNone), probe.execs + 1, 1)

\* Mutant: execute instead of executemany, only the first key is deleted.
DeleteFirst(db, keys) == IF keys = <<>> THEN db ELSE Delete(db, Head(keys).v)

\* Table.__delitem__(keys)
RECURSIVE DeleteMany(_, _)
DeleteMany(db, keys) ==
    IF keys = <<>> THEN db ELSE DeleteMany(Delete(db, Head(keys).v), Tail(keys))

TableDelItem(bound, db, keys) ==
    LET ks == TableGetItem(keys)
    IN  IF ~bound THEN Res(db, UnboundCur, 0, 0)
        ELSE Res(DeleteMany(db, ks), Return(PyNone), Len(ks), 1)

\* Table.__len__
TableLen(bound, db) ==
    IF ~bound THEN Res(db, UnboundCur, 0, 0)
    ELSE Res(db, Return(PyInt(Count(db))), 1, 0)

\* Table.rollback
TableRollback(bound, db, committed) ==
    IF ~bound THEN Res(db, UnboundCon, 0, 0)
    ELSE Res(committed, Return(PyNone), 0, 0)

\* Pivot.rollback: reads self.local, which no Pivot has.
PivotRollback(bound, db, committed) ==
    Res(db, Raise("AttributeError", "'Pivot' object has no attribute 'local'"), 0, 0)

\* The keys of the dict that to_dict fills: each key once, in first-seen order.
RECURSIVE DictKeys(_)
DictKeys(keys) ==
    IF keys = <<>> THEN <<>>
    ELSE LET front == DictKeys(SubSeq(keys, 1, Len(keys) - 1))
             k == keys[Len(keys)]
         IN  IF \E i \in 1..Len(front) : front[i] = k THEN front ELSE Append(front, k)

\* dict(zip(cols, row)) without the primary key; {} for a missing row.
RowDict(db, key) ==
    LET row == FetchAll(db, key)
    IN  IF row = PyNone THEN PyDict(<<>>)
        ELSE PyDict([i \in 1..Len(ColOrder) |->
                 PyTuple(<<PyStr(ColOrder[i]), row.items[i + 1]>>)])

\* Mutant: the test forgets keep_key.
CollapsesAnyway(keep_key, n) == n = 1

\* Pivot.to_dict's test, "not keep_key and len(rows) == 1".
Collapses(keep_key, n) == ~keep_key /\ n = 1

\* Pivot.to_dict(keep_key)
PivotToDict(bound, db, keys, keep_key) ==
    LET dk == DictKeys(keys)
        rows_ == PyDict([i \in 1..Len(dk) |-> PyTuple(<<dk[i], RowDict(db, dk[i].v)>>)])
    IN  IF keys # <<>> /\ ~bound THEN Res(db, UnboundCur, 0, 0)
        ELSE IF Collapses(keep_key, Len(rows_.items))
        THEN Res(db, Return(rows_.items[1].items[2]), Len(keys), 0)
        ELSE Res(db, Return(rows_), Len(keys), 0)

\* How the driver (pymysql, mysqlclient) renders one parameter into the
\* statement: a sequence becomes a parenthesised list, which the server takes as
\* a value only when it holds exactly one value. "" when the parameter is fine,
\* else the error class.
RECURSIVE HasEmpty(_)
HasEmpty(p) ==
    /\ p.t = "tuple"
    /\ \/ p.items = <<>>
       \/ \E i \in 1..Len(p.items) : HasEmpty(p.items[i])

RECURSIVE ParamError(_)
ParamError(p) ==
    IF p.t # "tuple" THEN ""
    ELSE IF HasEmpty(p) THEN "ProgrammingError"
    ELSE IF Len(p.items) = 1 THEN ParamError(p.items[1])
    ELSE "OperationalError"

RECURSIVE ParamValue(_)
ParamValue(p) ==
    IF p.t = "tuple" THEN ParamValue(p.items[1])
    ELSE IF p = PyNone THEN NULL ELSE p.v

\* Why the execution for one (row_values, key) pair fails, "" when it does not:
\* row_values+(key,) needs a tuple, the statement needs one parameter per %s.
ExecError(names, rv) ==
    IF rv.t # "tuple" THEN "TypeError"
    ELSE IF Len(rv.items) # Len(names) THEN "TypeError"
    ELSE IF \E j \in 1..Len(names) : ParamError(rv.items[j]) = "ProgrammingError"
    THEN "ProgrammingError"
    ELSE IF \E j \in 1..Len(names) : ParamError(rv.items[j]) # ""
    THEN "OperationalError"
    ELSE ""

\* Mutant: the keys are paired with the value tuples from the other end.
PairKeyReversed(keys, i) == keys[Len(keys) + 1 - i]

\* zip(values, self.keys): the key that goes with the i-th value tuple.
PairKey(keys, i) == keys[i]

\* cursor.executemany(UPDATE ...) over pairs i..n: the driver executes the
\* statement for one pair after the other and stops at the first that fails.
RECURSIVE UpdateMany(_, _, _, _, _, _)
UpdateMany(db, names, values, keys, i, n) ==
    IF i > n \/ ExecError(names, values[i]) # "" THEN db
    ELSE UpdateMany(
             Update(db, PairKey(keys, i).v,
                    {<<names[j], ParamValue(values[i].items[j])>> : j \in 1..Len(names)}),
             names, values, keys, i + 1, n)

Min(a, b) == IF a < b THEN a ELSE b

\* Pivot.__setitem__(cols, values)
PivotSetItem(bound, db, keys, cols, values) ==
    LET v1 == IF Len(keys) = 1 THEN PyTuple(<<values>>) ELSE values
        single == cols.t # "tuple"
        v2 == IF single
              THEN PyTuple([i \in 1..Len(v1.items) |-> PyTuple(<<v1.items[i]>>)])
              ELSE v1
        names == ColNames(cols)
        n == Min(Len(v2.items), Len(keys))
        bad == {i \in 1..n : ExecError(names, v2.items[i]) # ""}
        stop == IF bad = {} THEN n + 1 ELSE CHOOSE i \in bad : \A j \in bad : i <= j
    IN  IF v1.t # "tuple"
        THEN \* iter(values) in the generator expression, or zip(values, keys)
             Res(db, Raise("TypeError", "object is not iterable"), 0, 0)
        ELSE IF ~bound THEN Res(db, UnboundCur, 0, 0)
        ELSE IF stop <= n
        THEN Res(UpdateMany(db, names, v2.items, keys, 1, n),
                 Raise(ExecError(names, v2.items[stop]), "execute failed"), stop - 1, 0)
        ELSE Res(UpdateMany(db, names, v2.items, keys, 1, n), Return(PyNone), n, 1)

\* --------------------------------------------------------------- state
VARIABLES
    insert_only,  \* Table.insert_only
    local,        \* Table.local: per thread, the names of its con and cur ("": not set)
    rows,         \* the committed table: key -> row, for the keys that have a row
    work,         \* per thread's connection: the table as its open transaction sees it
    last          \* the call in progress: its arguments and how it ended

vars == <<insert_only, local, rows, work, last>>

\* ------------------------------------------------------ the arguments
\* The tuples over S of at most n elements.
Tuples(S, n) == UNION {[1..m -> S] : m \in 0..n}

KeyObjs == {PyInt(k) : k \in Keys}
\* What Table.__getitem__ and Table.__delitem__ are indexed with.
KeyArgs == KeyObjs \cup {PyTuple(t) : t \in Tuples(KeyObjs, MaxLen)}
\* What a Pivot is indexed with: one column name, or a tuple of distinct names.
ColArgs ==
    {PyStr(c) : c \in Cols}
    \cup {PyTuple(<<PyStr(c)>>) : c \in Cols}
    \cup {PyTuple(<<PyStr(p[1]), PyStr(p[2])>>) : p \in {q \in Cols \X Cols : q[1] # q[2]}}
Scalars == {PyNone} \cup {PyInt(v) : v \in Vals}
FlatTuples == {PyTuple(t) : t \in Tuples(Scalars, MaxLen)}
\* What a Pivot item is assigned: a value, a tuple of values, a tuple of tuples.
ValueArgs ==
    Scalars \cup FlatTuples
    \cup {PyTuple(t) : t \in Tuples(FlatTuples \ {PyTuple(<<>>)}, MaxLen) \ {<<>>}}
\* The dicts a Table item is assigned, as sets of (column, value) items.
DictArgs ==
    UNION {{{<<c, f[c]>> : c \in S} : f \in [S -> DbVals]} : S \in SUBSET Cols}

\* ---------------------------------------------------------------- calls
Idle ==
    [op |-> "idle", thread |-> "", keys |-> <<>>, cols |-> PyNone, values |-> PyNone,
     items |-> {}, flag |-> FALSE, out |-> Return(PyNone), execs |-> 0, commits |-> 0,
     cur |-> "", pre |-> <<>>, base |-> <<>>]

Bound(c) == local[c].cur # ""

\* A thread's call ends: the transaction keeps what was executed; a commit makes
\* it the committed table, which every connection without changes of its own sees.
Finish(c, call, res) ==
    /\ last' = [call EXCEPT !.thread = c, !.out = res.out, !.execs = res.execs,
                            !.commits = res.commits, !.cur = local[c].cur,
                            !.pre = work[c], !.base = rows]
    /\ IF res.commits > 0
       THEN /\ rows' = res.db
            /\ work' = [d \in Threads |->
                           IF d = c \/ work[d] = rows THEN res.db ELSE work[d]]
       ELSE /\ rows' = rows
            /\ work' = [work EXCEPT ![c] = res.db]
    /\ UNCHANGED <<insert_only, local>>

\* Table.connect(connection): the thread binds a connection of its own and a new
\* cursor of it: a connection just opened, whose transaction holds nothing, or
\* the one it had bound before.
connect(c) ==
    /\ last.op = "idle"
    /\ \E opened \in BOOLEAN :
           /\ opened \/ Bound(c)
           /\ work' = [work EXCEPT ![c] = IF opened THEN rows ELSE @]
           /\ last' = [Idle EXCEPT !.op = "connect", !.thread = c, !.flag = opened,
                                   !.cur = c, !.pre = work[c], !.base = rows]
    /\ local' = [local EXCEPT ![c] = [con |-> c, cur |-> c]]
    /\ UNCHANGED <<insert_only, rows>>

Table_setitem(c) ==
    /\ last.op = "idle"
    /\ \E key \in KeyObjs, values \in DictArgs :
            Finish(c, [Idle EXCEPT !.op = "Table.__setitem__", !.keys = <<key>>, !.items = values],
                   TableSetItem(Bound(c), work[c], insert_only, key, values))

Table_delitem(c) ==
    /\ last.op = "idle"
    /\ \E keys \in KeyArgs :
            Finish(c, [Idle EXCEPT !.op = "Table.__delitem__", !.keys = TableGetItem(keys)],
                   TableDelItem(Bound(c), work[c], keys))

Table_len(c) ==
    /\ last.op = "idle"
    /\ Finish(c, [Idle EXCEPT !.op = "Table.__len__"], TableLen(Bound(c), work[c]))

Table_rollback(c) ==
    /\ last.op = "idle"
    /\ Finish(c, [Idle EXCEPT !.op = "Table.rollback"], TableRollback(Bound(c), work[c], rows))

Pivot_getitem(c) ==
    /\ last.op = "idle"
    /\ \E keys \in KeyArgs, cols \in ColArgs, keep_tuples \in BOOLEAN :
            Finish(c, [Idle EXCEPT !.op = "Pivot.__getitem__", !.keys = TableGetItem(keys),
                                   !.cols = cols, !.flag = keep_tuples],
                   PivotGetItem(Bound(c), work[c], TableGetItem(keys), cols, keep_tuples))

Pivot_setitem(c) ==
    /\ last.op = "idle"
    /\ \E keys \in KeyArgs, cols \in ColArgs, values \in ValueArgs :
            Finish(c, [Idle EXCEPT !.op = "Pivot.__setitem__", !.keys = TableGetItem(keys),
                                   !.cols = cols, !.values = values],
                   PivotSetItem(Bound(c), work[c], TableGetItem(keys), cols, values))

Pivot_to_dict(c) ==
    /\ last.op = "idle"
    /\ \E keys \in KeyArgs, keep_key \in BOOLEAN :
            Finish(c, [Idle EXCEPT !.op = "Pivot.to_dict", !.keys = TableGetItem(keys),
                                   !.flag = keep_key],
                   PivotToDict(Bound(c), work[c], TableGetItem(keys), keep_key))

Pivot_len(c) ==
    /\ last.op = "idle"
    /\ \E keys \in KeyArgs :
            Finish(c, [Idle EXCEPT !.op = "Pivot.__len__", !.keys = TableGetItem(keys)],
                   PivotLen(Bound(c), work[c], TableGetItem(keys)))

Pivot_rollback(c) ==
    /\ last.op = "idle"
    /\ \E keys \in KeyArgs :
            Finish(c, [Idle EXCEPT !.op = "Pivot.rollback", !.keys = TableGetItem(keys)],
                   PivotRollback(Bound(c), work[c], rows))

\* The caller takes the result (or the exception) of its call.
Returned ==
    /\ last.op # "idle"
    /\ last' = Idle
    /\ UNCHANGED <<insert_only, local, rows, work>>

\* Table(module, name, pk, insert_only): nothing is connected, the table is as
\* the database holds it (here: empty).
Init ==
    /\ insert_only \in BOOLEAN
    /\ local = [c \in Threads |-> [con |-> "", cur |-> ""]]
    /\ rows = <<>>
    /\ work = [c \in Threads |-> <<>>]
    /\ last = Idle

\* The calls that read, and those that write whole rows.
TableCall(c) ==
    \/ connect(c)
    \/ Table_setitem(c)
    \/ Table_delitem(c)
    \/ Table_len(c)
    \/ Table_rollback(c)
    \/ Pivot_getitem(c)
    \/ Pivot_to_dict(c)
    \/ Pivot_len(c)
    \/ Pivot_rollback(c)

\* One thread uses the Table.
Next == TableCall("main") \/ Pivot_setitem("main") \/ Returned
Spec == Init /\ [][Next]_vars

\* One thread uses the Table, and writes whole rows only.
NextTable == TableCall("main") \/ Returned
SpecTable == Init /\ [][NextTable]_vars

\* Several threads use the same Table, each writing whole rows only.
NextThreads == (\E c \in Threads : TableCall(c)) \/ Returned
SpecThreads == Init /\ [][NextThreads]_vars

\* --------------------------------------------------------------- claims
\* The call in progress was made by a thread that had called connect.
WasBound == last.cur # ""
KeySet(keys) == {keys[i].v : i \in 1..Len(keys)}

\* C1: with insert_only false, after Table.__setitem__(k, values) returns,
\* indexing the Pivot of k with each column written returns the value written;
\* the table has one row more when k had no row, and as many when it had one.
C1_SetThenGet ==
    (last.op = "Table.__setitem__" /\ ~insert_only /\ last.out.exc = "") =>
        LET c == last.thread
            key == last.keys[1]
        IN  /\ \A it \in last.items :
                   PivotGetItem(Bound(c), work[c], TableGetItem(key), PyStr(it[1]), FALSE).out
                       = Return(ToPy(it[2]))
            /\ TableLen(Bound(c), work[c]).out
                   = Return(PyInt(Count(last.pre)
                                  + (IF key.v \in DOMAIN last.pre THEN 0 ELSE 1)))
            /\ \A k \in DOMAIN last.pre \ {key.v} :
                   k \in DOMAIN work[c] /\ work[c][k] = last.pre[k]

\* C1's case: an existing row is updated in place to another value.
C1_Witness ==
    /\ last.op = "Table.__setitem__" /\ ~insert_only /\ last.out.exc = ""
    /\ last.keys[1].v \in DOMAIN last.pre
    /\ \E it \in last.items : last.pre[last.keys[1].v][it[1]] # it[2]
    /\ Count(work[last.thread]) = Count(last.pre)

\* C2: with insert_only true, Table.__setitem__ on a key that has a row (the
\* second set of that key) raises the driver's duplicate-key error: nothing is
\* updated and nothing is committed; on a key without a row it inserts.
C2_InsertOnlyDuplicate ==
    (last.op = "Table.__setitem__" /\ insert_only /\ WasBound) =>
        LET c == last.thread
            key == last.keys[1].v
        IN  IF key \in DOMAIN last.pre
            THEN /\ last.out.exc = "IntegrityError"
                 /\ last.commits = 0
                 /\ work[c] = last.pre
                 /\ rows = last.base
            ELSE /\ last.out.exc = ""
                 /\ key \in DOMAIN work[c]
                 /\ last.commits = 1

\* C2's case: the second set of a key under insert_only.
C2_Witness ==
    /\ last.op = "Table.__setitem__" /\ insert_only
    /\ last.keys[1].v \in DOMAIN last.pre
    /\ last.out.exc = "IntegrityError"

\* C7: Table.__delitem__ removes the rows of the keys it is given and no other
\* row; Table.__len__ afterwards is the count before less the rows removed: 2
\* less for two keys that both had a row.
C7_DeleteRemovesRows ==
    (last.op = "Table.__delitem__" /\ WasBound) =>
        LET c == last.thread
            gone == KeySet(last.keys)
        IN  /\ last.out.exc = ""
            /\ \A k \in gone : k \notin DOMAIN work[c]
            /\ \A k \in DOMAIN last.pre \ gone :
                   k \in DOMAIN work[c] /\ work[c][k] = last.pre[k]
            /\ TableLen(Bound(c), work[c]).out
                   = Return(PyInt(Count(last.pre) - Cardinality(gone \cap DOMAIN last.pre)))
            /\ (Len(last.keys) = 2 /\ Cardinality(gone) = 2 /\ gone \subseteq DOMAIN last.pre)
                   => Count(rows) = Count(last.pre) - 2

\* C7's case: two keys that both have a row are deleted.
C7_Witness ==
    /\ last.op = "Table.__delitem__" /\ last.out.exc = ""
    /\ Len(last.keys) = 2 /\ last.keys[1] # last.keys[2]
    /\ KeySet(last.keys) \subseteq DOMAIN last.pre
    /\ Count(work[last.thread]) = Count(last.pre) - 2

\* C3: Pivot.__getitem__ of one column (keep_tuples false) on a key without a row
\* raises the missing-row error, the driver module's OperationalError; of
\* several columns on a key without a row it returns None and raises nothing.
C3_MissingRow ==
    (/\ last.op = "Pivot.__getitem__" /\ WasBound
     /\ Len(last.keys) = 1 /\ last.keys[1].v \notin DOMAIN last.pre) =>
        IF Len(NormCols(last.cols)) = 1 /\ ~last.flag
        THEN last.out.exc = "OperationalError"
        ELSE Len(NormCols(last.cols)) > 1 => last.out = Return(PyNone)

\* The value is the dict that maps each of the keys, once, to its row's dict.
KeyWrapped(val, db, keys) ==
    /\ val.t = "dict"
    /\ Len(val.items) = Cardinality(KeySet(keys))
    /\ \A i \in 1..Len(keys) : \E j \in 1..Len(val.items) :
           val.items[j] = PyTuple(<<keys[i], RowDict(db, keys[i].v)>>)

\* C5 as claimed: to_dict returns the row's dict itself for exactly one key and
\* keep_key false, and the dict keyed by primary key for two or more keys
\* (duplicates or not) or keep_key true.
C5_ToDictByKeyCount ==
    (last.op = "Pivot.to_dict" /\ (WasBound \/ last.keys = <<>>)) =>
        IF Len(last.keys) = 1 /\ ~last.flag
        THEN last.out = Return(RowDict(last.pre, last.keys[1].v))
        ELSE last.out.exc = "" /\ KeyWrapped(last.out.val, last.pre, last.keys)

\* C5 as amended: to_dict returns the row's dict itself when keep_key is false
\* and the keys name one distinct key (a repeated key counts once), and the
\* dict keyed by primary key, one entry per distinct key, otherwise.
C5_ToDictByDistinctKeys ==
    (last.op = "Pivot.to_dict" /\ (WasBound \/ last.keys = <<>>)) =>
        IF Cardinality(KeySet(last.keys)) = 1 /\ ~last.flag
        THEN last.out = Return(RowDict(last.pre, last.keys[1].v))
        ELSE last.out.exc = "" /\ KeyWrapped(last.out.val, last.pre, last.keys)

\* C5's case: a Pivot of one key given twice, keep_key false, the row exists.
C5_Witness ==
    /\ last.op = "Pivot.to_dict" /\ ~last.flag /\ last.out.exc = ""
    /\ Len(last.keys) = 2 /\ last.keys[1] = last.keys[2]
    /\ last.keys[1].v \in DOMAIN last.pre
    /\ last.out.val = RowDict(last.pre, last.keys[1].v)

\* C6: the length of a Pivot is the number of its keys that have a row.
C6_PivotLenCountsRows ==
    (last.op = "Pivot.__len__" /\ (WasBound \/ last.keys = <<>>)) =>
        last.out = Return(PyInt(Cardinality(
                       {i \in 1..Len(last.keys) : last.keys[i].v \in DOMAIN last.pre})))

\* The call is an operation that goes to the database.
DatabaseCall ==
    \/ last.op \in {"Table.__setitem__", "Table.__delitem__", "Table.__len__",
                    "Table.rollback", "Pivot.rollback"}
    \/ /\ last.op \in {"Pivot.__getitem__", "Pivot.to_dict", "Pivot.__len__"}
       /\ last.keys # <<>>

\* C9: connection and cursor are the calling thread's own: a statement runs on
\* the cursor the thread bound with connect, and a database operation in a
\* thread that has not called connect fails with the unbound-connection error
\* (the thread's local has no cur, no con), whatever other threads have bound.
C9_PerThreadConnection ==
    /\ last.execs > 0 => last.cur = last.thread
    /\ (DatabaseCall /\ ~WasBound) => last.out \in {UnboundCur, UnboundCon}

\* The values are ((a,b),(c,d)).
TwoByTwo(values) ==
    /\ values.t = "tuple" /\ Len(values.items) = 2
    /\ \A i \in 1..2 :
           /\ values.items[i].t = "tuple" /\ Len(values.items[i].items) = 2
           /\ \A j \in 1..2 : values.items[i].items[j] \in Scalars

SetOfTwoByTwo ==
    /\ last.op = "Pivot.__setitem__" /\ WasBound
    /\ Len(last.keys) = 2
    /\ last.cols.t = "tuple" /\ Len(last.cols.items) = 2
    /\ TwoByTwo(last.values)

ReadBack ==
    PivotGetItem(Bound(last.thread), work[last.thread], last.keys, last.cols, FALSE).out

\* C4 as claimed: on a Pivot over keys [k1,k2], after columns [c1,c2] are
\* assigned ((a,b),(c,d)), indexing it with [c1,c2] returns ((a,b),(c,d)).
C4_RoundTrip ==
    SetOfTwoByTwo => (last.out.exc = "" /\ ReadBack = Return(last.values))

\* C4 as amended: the same, for keys that both have a row and, when k1 = k2,
\* for (a,b) = (c,d).
C4_RoundTripOfRows ==
    (/\ SetOfTwoByTwo
     /\ KeySet(last.keys) \subseteq DOMAIN last.pre
     /\ (last.keys[1] = last.keys[2] => last.values.items[1] = last.values.items[2]))
        => (last.out.exc = "" /\ ReadBack = Return(last.values))

\* C4's case: two rows are assigned different tuples, which changes both.
C4_Witness ==
    /\ SetOfTwoByTwo /\ last.out.exc = ""
    /\ last.keys[1] # last.keys[2]
    /\ KeySet(last.keys) \subseteq DOMAIN last.pre
    /\ last.values.items[1] # last.values.items[2]
    /\ \A k \in KeySet(last.keys) : work[last.thread][k] # last.pre[k]
    /\ ReadBack = Return(last.values)

\* C8: Table.__setitem__, Table.__delitem__ and Pivot.__setitem__ commit once
\* per call, and a call's commit makes durable only what that call changed: the
\* transaction holds nothing of an earlier call when a call commits.
C8_CommitPerCall ==
    /\ last.commits <= 1
    /\ (/\ last.op \in {"Table.__setitem__", "Table.__delitem__", "Pivot.__setitem__"}
        /\ last.out.exc = "") => last.commits = 1
    /\ last.commits > 0 => last.pre = last.base

\* The value tuples Pivot.__setitem__ is given, one per key.
Batch == IF Len(last.keys) = 1 THEN <<last.values>> ELSE last.values.items
ValueTuple(i) == IF last.cols.t = "tuple" THEN Batch[i].items ELSE <<Batch[i]>>

\* C10 as claimed: Pivot.__setitem__ on n keys executes the UPDATE n times, for
\* every values argument, commits once, and leaves the row count as it was
\* (stated here for the arguments the call returns with).
C10_OneUpdatePerKey ==
    (last.op = "Pivot.__setitem__" /\ WasBound /\ last.out.exc = "") =>
        /\ last.execs = Len(last.keys)
        /\ last.commits = 1
        /\ Count(work[last.thread]) = Count(last.pre)

\* C10 as amended: Pivot.__setitem__ never inserts or deletes a row; when it
\* returns it has executed the UPDATE once per (key, value tuple) pair, the
\* i-th key with the i-th tuple, as many as there are of both (n for n keys
\* when values holds a tuple for each), and committed once.
C10_OneUpdatePerPair ==
    last.op = "Pivot.__setitem__" =>
        LET c == last.thread
            keys == last.keys
            names == ColNames(last.cols)
            m == Min(Len(keys), Len(Batch))
            paired == {keys[i].v : i \in 1..m}
        IN  /\ DOMAIN work[c] = DOMAIN last.pre
            /\ last.out.exc = "" =>
                /\ last.execs = m
                /\ Len(Batch) >= Len(keys) => last.execs = Len(keys)
                /\ last.commits = 1
                /\ rows = work[c]
                /\ \A i \in 1..m :
                       (/\ keys[i].v \in DOMAIN last.pre
                        /\ \A j \in (i+1)..m : keys[j] # keys[i]) =>
                           \A x \in 1..Len(names) :
                               ValueTuple(i)[x].t # "tuple" =>
                                   ToPy(work[c][keys[i].v][names[x]]) = ValueTuple(i)[x]
                /\ \A k \in DOMAIN last.pre :
                       \A col \in Cols :
                           (k \notin paired \/ \A x \in 1..Len(names) : names[x] # col) =>
                               work[c][k][col] = last.pre[k][col]

\* C10's case: two keys with rows are paired with two value tuples, and both
\* rows change.
C10_Witness ==
    /\ last.op = "Pivot.__setitem__" /\ last.out.exc = ""
    /\ Len(last.keys) = 2 /\ last.keys[1] # last.keys[2]
    /\ last.execs = 2 /\ last.commits = 1
    /\ \A k \in KeySet(last.keys) :
           k \in DOMAIN last.pre /\ work[last.thread][k] # last.pre[k]

====
